---- MODULE Spec2Model ----
(***************************************************************************)
(* Model of suggest-swaps.py: the greedy OSD swap suggester.               *)
(*                                                                         *)
(* A CephOsd is a record; the list built by get_ceph_osd_metadata is the   *)
(* sequence osds, and an OSD object is referred to by its position in that *)
(* list, which is also its id (ceph OSD ids are unique, so the dataclass   *)
(* equality used by list.remove coincides with object identity).           *)
(* A CephHost is a record [hostname, osd_by_type]; osd_by_type is a Python *)
(* dict, modelled as the sequence of its items in insertion order, each    *)
(* item a record [type, osds] whose osds is the list of OSD objects.       *)
(*                                                                         *)
(* Capacities are counted in units of half a gigabyte, so the divisor      *)
(* 10**9 of the source is GB = 2 units (TLC integers are 32 bits wide and  *)
(* cannot hold sums of byte counts).  The floor division is kept.          *)
(* np.std returns a float; it is modelled in fixed point, as the standard  *)
(* deviation multiplied by StdScale and rounded down.                      *)
(***************************************************************************)
EXTENDS Integers, Sequences, FiniteSets, TLC

\* ---------------------------------------------------------------- bounds
MaxOsds == 3
MaxSize == 2

\* ------------------------------------------------------- program constants
GB == 2
StdScale == 600
NegInf == -2147483647

HostNames == {"X", "Y"}
Types == {"hdd", "ssd"}
Sizes == 1..MaxSize

None == <<>>

VARIABLES
    pc,             \* position of the program
    metadata,       \* what the cluster holds for "ceph osd metadata"
    log,            \* the error messages printed by get_ceph_osd_metadata
    osds,           \* the CephOsd objects (hostname is the mutable field)
    hosts,          \* the list of CephHost objects handed to optimize
    i,              \* step counter of optimize
    output,         \* the swaps printed by optimize, in order
    best_swap, highest_spread_improvement, original_spread_by_type,
    ia, ib,         \* positions of the loops over hosts in find_best_swap
    host_a_osds, host_b_osds,
    ja, jb,         \* positions of the loops over host_a_osds, host_b_osds
    at_call,        \* history: hosts and osds when find_best_swap was called
    at_swap         \* history: hosts and osds before the hypothetical swap

vars == <<pc, metadata, log, osds, hosts, i, output, best_swap, highest_spread_improvement,
          original_spread_by_type, ia, ib, host_a_osds, host_b_osds, ja, jb,
          at_call, at_swap>>

search_vars == <<best_swap, highest_spread_improvement,
                 original_spread_by_type, ia, ib, host_a_osds, host_b_osds,
                 ja, jb>>

\* ------------------------------------------------------------ list helpers
RECURSIVE SumSeq(_)
SumSeq(s) == IF s = <<>> THEN 0 ELSE Head(s) + SumSeq(Tail(s))

RECURSIVE Concat(_)
Concat(ss) == IF ss = <<>> THEN <<>> ELSE Head(ss) \o Concat(Tail(ss))

Range(s) == {s[k] : k \in DOMAIN s}

\* list.index: position of the first element equal to x, 0 when absent
IndexOf(s, x) ==
    IF \E k \in DOMAIN s : s[k] = x
    THEN CHOOSE k \in DOMAIN s : s[k] = x /\ \A m \in 1..(k-1) : s[m] /= x
    ELSE 0

\* list.remove: drops the first element equal to x
ListRemove(s, x) ==
    LET k == IndexOf(s, x)
    IN  [m \in 1..(Len(s)-1) |-> IF m < k THEN s[m] ELSE s[m+1]]

\* ------------------------------------------------------------ dict helpers
\* position of key t among the items of dict d, 0 when the key is absent
KeyIndex(d, t) ==
    IF \E k \in DOMAIN d : d[k].type = t
    THEN CHOOSE k \in DOMAIN d : d[k].type = t
    ELSE 0

HasKey(d, t) == KeyIndex(d, t) /= 0

DictGet(d, t) == d[KeyIndex(d, t)].osds

DictKeys(d) == {d[k].type : k \in DOMAIN d}

\* d.setdefault(t, []).append(x)
SetDefaultAppend(d, t, x) ==
    IF HasKey(d, t)
    THEN [d EXCEPT ![KeyIndex(d, t)].osds = Append(@, x)]
    ELSE Append(d, [type |-> t, osds |-> <<x>>])

\* next(host for host in hosts if host.hostname == name), as a position
HostIndex(hs, name) ==
    CHOOSE k \in DOMAIN hs :
        hs[k].hostname = name /\ \A m \in 1..(k-1) : hs[m].hostname /= name

HasHost(hs, name) == \E k \in DOMAIN hs : hs[k].hostname = name

\* ------------------------------------------- group_osds_by_host_and_type
RECURSIVE GroupFrom(_, _, _)
GroupFrom(os, k, hs) ==
    IF k > Len(os) THEN hs
    ELSE LET osd == os[k]
             hs1 == IF HasHost(hs, osd.hostname) THEN hs
                    ELSE Append(hs, [hostname |-> osd.hostname,
                                     osd_by_type |-> <<>>])
             h   == HostIndex(hs1, osd.hostname)
             hs2 == [hs1 EXCEPT ![h].osd_by_type =
                        SetDefaultAppend(@, osd.bluestore_bdev_type, osd.id)]
         IN  GroupFrom(os, k + 1, hs2)

group_osds_by_host_and_type(os) == GroupFrom(os, 1, <<>>)

\* ------------------------------------------------ calculate_spread_by_type
\* the largest r in lo..hi with r * r <= x, found by bisection
SqrtSearch[a \in Nat \X Nat \X Nat] ==
    LET x  == a[1]
        lo == a[2]
        hi == a[3]
        mid == (lo + hi + 1) \div 2
    IN  IF lo >= hi THEN lo
        ELSE IF mid * mid <= x THEN SqrtSearch[<<x, mid, hi>>]
             ELSE SqrtSearch[<<x, lo, mid - 1>>]

ISqrt(x) == SqrtSearch[<<x, 0, 46340>>]

\* np.std(sizes): population standard deviation, times StdScale, floored.
\* n^2 * variance = n * sum(x^2) - sum(x)^2
Std(sizes) ==
    LET n  == Len(sizes)
        sq == [k \in DOMAIN sizes |-> sizes[k] * sizes[k]]
        v  == n * SumSeq(sq) - SumSeq(sizes) * SumSeq(sizes)
    IN  ISqrt((v * StdScale * StdScale) \div (n * n))

\* sum(osd.bluestore_bdev_size for osd in osds) // (10**9)
BucketTotal(os, ids) ==
    SumSeq([k \in DOMAIN ids |-> os[ids[k]].bluestore_bdev_size]) \div GB

\* total_sizes_by_type[t]: one entry per host whose dict has key t
RECURSIVE TotalSizes(_, _, _, _)
TotalSizes(hs, os, t, k) ==
    IF k > Len(hs) THEN <<>>
    ELSE (IF HasKey(hs[k].osd_by_type, t)
          THEN <<BucketTotal(os, DictGet(hs[k].osd_by_type, t))>>
          ELSE <<>>) \o TotalSizes(hs, os, t, k + 1)

SpreadKeys(hs) == UNION {DictKeys(hs[k].osd_by_type) : k \in DOMAIN hs}

calculate_spread_by_type(hs, os) ==
    [t \in SpreadKeys(hs) |-> Std(TotalSizes(hs, os, t, 1))]

\* -------------------------------------------------------------- swap_osd
\* d[t].remove(x) and d[t].append(x) on a dict that has key t
DictRemove(d, t, x) == [d EXCEPT ![KeyIndex(d, t)].osds = ListRemove(@, x)]

DictAppend(d, t, x) == [d EXCEPT ![KeyIndex(d, t)].osds = Append(@, x)]

\* lines 88-89 appending with setdefault, as the grouping does
swap_osd_setdefault(hs, os, a, b) ==
    LET host_a == HostIndex(hs, os[a].hostname)
        host_b == HostIndex(hs, os[b].hostname)
        ta     == os[a].bluestore_bdev_type
        tb     == os[b].bluestore_bdev_type
        hs1 == [hs EXCEPT ![host_a].osd_by_type = DictRemove(@, ta, a)]
        hs2 == [hs1 EXCEPT ![host_b].osd_by_type = DictRemove(@, tb, b)]
        os1 == [os EXCEPT ![a].hostname = os[b].hostname,
                          ![b].hostname = os[a].hostname]
        hs3 == [hs2 EXCEPT ![host_a].osd_by_type =
                               SetDefaultAppend(@, tb, b)]
    IN  [hosts |-> [hs3 EXCEPT ![host_b].osd_by_type =
                                   SetDefaultAppend(@, ta, a)],
         osds |-> os1, raised |-> FALSE]

\* swap_osd re-inserting each OSD under the type of the OSD it replaces
swap_osd_same_bucket(hs, os, a, b) ==
    LET host_a == HostIndex(hs, os[a].hostname)
        host_b == HostIndex(hs, os[b].hostname)
        ta     == os[a].bluestore_bdev_type
        tb     == os[b].bluestore_bdev_type
        hs1 == [hs EXCEPT ![host_a].osd_by_type = DictRemove(@, ta, a)]
        hs2 == [hs1 EXCEPT ![host_b].osd_by_type = DictRemove(@, tb, b)]
        os1 == [os EXCEPT ![a].hostname = os[b].hostname,
                          ![b].hostname = os[a].hostname]
        hs3 == [hs2 EXCEPT ![host_a].osd_by_type = DictAppend(@, ta, b)]
    IN  [hosts |-> [hs3 EXCEPT ![host_b].osd_by_type = DictAppend(@, tb, a)],
         osds |-> os1, raised |-> FALSE]

\* Returns the hosts and osds left by the call and whether it raised.
swap_osd(hs, os, a, b) ==
    LET host_a == HostIndex(hs, os[a].hostname)
        host_b == HostIndex(hs, os[b].hostname)
        ta     == os[a].bluestore_bdev_type
        tb     == os[b].bluestore_bdev_type
        \* lines 83-84
        hs1 == [hs EXCEPT ![host_a].osd_by_type = DictRemove(@, ta, a)]
        hs2 == [hs1 EXCEPT ![host_b].osd_by_type = DictRemove(@, tb, b)]
        \* line 86
        os1 == [os EXCEPT ![a].hostname = os[b].hostname,
                          ![b].hostname = os[a].hostname]
    IN  IF ~HasKey(hs2[host_a].osd_by_type, tb)
        THEN [hosts |-> hs2, osds |-> os1, raised |-> TRUE]       \* line 88
        ELSE LET hs3 == [hs2 EXCEPT ![host_a].osd_by_type =
                                        DictAppend(@, tb, b)]
             IN  IF ~HasKey(hs3[host_b].osd_by_type, ta)
                 THEN [hosts |-> hs3, osds |-> os1, raised |-> TRUE] \* line 89
                 ELSE [hosts |-> [hs3 EXCEPT ![host_b].osd_by_type =
                                                DictAppend(@, ta, a)],
                       osds |-> os1, raised |-> FALSE]

\* ----------------------------------------------------------------- Init
OsdOptions == HostNames \X Types \X Sizes

MakeOsds(l) ==
    [k \in DOMAIN l |-> [id |-> k,
                         bluestore_bdev_size |-> l[k][3],
                         hostname |-> l[k][1],
                         bluestore_bdev_type |-> l[k][2]]]

\* every inventory of at most MaxOsds OSDs on two hosts
SmallInventories == UNION {[1..n -> OsdOptions] : n \in 0..MaxOsds}

\* two hosts that both hold both types
MixedInventory ==
    << <<"X", "hdd", 1>>, <<"X", "hdd", 2>>, <<"X", "hdd", 2>>,
       <<"X", "ssd", 1>>, <<"Y", "ssd", 1>>, <<"Y", "hdd", 1>> >>

\* three hosts, balanced by two swaps
TwoSwapInventory ==
    << <<"X", "hdd", 2>>, <<"Y", "hdd", 2>>, <<"Z", "hdd", 4>>,
       <<"Z", "hdd", 4>> >>

\* three hosts, OSDs of 7, 5, 2, 5, 2 and 6 GB, balanced by five swaps
FiveSwapInventory ==
    << <<"Y", "hdd", 14>>, <<"X", "hdd", 10>>, <<"Z", "hdd", 4>>,
       <<"Y", "hdd", 10>>, <<"Z", "hdd", 4>>, <<"Y", "hdd", 12>> >>

\* three hosts, two equally good swaps between the second and the third
TieInventory ==
    << <<"X", "hdd", 3>>, <<"Z", "hdd", 4>>, <<"Y", "hdd", 1>>,
       <<"Z", "hdd", 3>> >>

\* four hosts, eight OSDs, balanced by nine swaps
NineSwapInventory ==
    << <<"W", "hdd", 2>>, <<"X", "hdd", 15>>, <<"Y", "hdd", 20>>,
       <<"X", "hdd", 17>>, <<"X", "hdd", 7>>, <<"W", "hdd", 4>>,
       <<"Z", "hdd", 11>>, <<"Y", "hdd", 18>> >>

\* host X with one hdd of 10 GB, host Y with hdds of 2 GB and 6 GB
ScenarioAInventory ==
    << <<"X", "hdd", 10 * GB>>, <<"Y", "hdd", 2 * GB>>,
       <<"Y", "hdd", 6 * GB>> >>

Inventories ==
    SmallInventories
        \cup {MixedInventory, TwoSwapInventory, FiveSwapInventory,
              TieInventory, NineSwapInventory, ScenarioAInventory}

Init ==
    /\ pc = "fetch"
    /\ metadata \in Inventories
    /\ log = <<>>
    /\ osds = <<>>
    /\ hosts = <<>>
    /\ i = 0
    /\ output = <<>>
    /\ best_swap = None
    /\ highest_spread_improvement = NegInf
    /\ original_spread_by_type = <<>>
    /\ ia = 0 /\ ib = 0 /\ ja = 0 /\ jb = 0
    /\ host_a_osds = <<>> /\ host_b_osds = <<>>
    /\ at_call = <<>>
    /\ at_swap = <<>>

\* ------------------------------------------------- get_ceph_osd_metadata
\* lines 33-47: the command succeeds, one CephOsd is built per record
FetchOk ==
    /\ pc = "fetch"
    /\ osds' = MakeOsds(metadata)
    /\ pc' = "main"
    /\ UNCHANGED <<metadata, log, hosts, i, output, search_vars, at_call,
                   at_swap>>

\* lines 33, 48-50: the command exits with a non-zero status; check=True
\* raises CalledProcessError, which is caught, printed and answered by []
FetchExitNonZero ==
    /\ pc = "fetch"
    /\ log' = Append(log, "Error executing ceph osd metadata")
    /\ osds' = <<>>
    /\ pc' = "main"
    /\ UNCHANGED <<metadata, hosts, i, output, search_vars, at_call, at_swap>>

\* line 33: the command cannot be started; subprocess.run raises an OSError
\* (FileNotFoundError), which line 48 does not catch: the program ends
FetchNotStartable ==
    /\ pc = "fetch"
    /\ pc' = "aborted"
    /\ UNCHANGED <<metadata, log, osds, hosts, i, output, search_vars,
                   at_call, at_swap>>

\* __main__ and the head of optimize
Main ==
    /\ pc = "main"
    /\ hosts' = group_osds_by_host_and_type(osds)
    /\ i' = 1
    /\ pc' = "while"
    /\ UNCHANGED <<metadata, log, osds, output, search_vars, at_call, at_swap>>

\* ------------------------------------------------------- find_best_swap
\* line 154 and lines 94-96: the call and the initialisation of the search
CallFindBestSwap ==
    /\ pc = "while"
    /\ best_swap' = None
    /\ highest_spread_improvement' = NegInf
    /\ original_spread_by_type' = calculate_spread_by_type(hosts, osds)
    /\ ia' = 0 /\ ib' = 0 /\ ja' = 0 /\ jb' = 0
    /\ host_a_osds' = <<>> /\ host_b_osds' = <<>>
    /\ at_call' = [hosts |-> hosts, osds |-> osds]
    /\ pc' = "for_host_a"
    /\ UNCHANGED <<metadata, log, osds, hosts, i, output, at_swap>>

\* line 98: the next host_a
ForHostA ==
    /\ pc = "for_host_a"
    /\ ia < Len(hosts)
    /\ ia' = ia + 1
    /\ ib' = 0
    /\ pc' = "for_host_b"
    /\ UNCHANGED <<metadata, log, osds, hosts, i, output, best_swap,
                   highest_spread_improvement, original_spread_by_type,
                   host_a_osds, host_b_osds, ja, jb, at_call, at_swap>>

\* line 132: the loop over host_a is exhausted, find_best_swap returns
ReturnBestSwap ==
    /\ pc = "for_host_a"
    /\ ia = Len(hosts)
    /\ pc' = "returned"
    /\ UNCHANGED <<metadata, log, osds, hosts, i, output, search_vars, at_call, at_swap>>

\* list(chain(*host.osd_by_type.values()))
AllOsds(host) ==
    Concat([k \in DOMAIN host.osd_by_type |-> host.osd_by_type[k].osds])

\* the test of line 100 left out: host_a is paired with itself
SameHostNotSkipped ==
    /\ pc = "for_host_b"
    /\ ib < Len(hosts)
    /\ hosts[ia].hostname = hosts[ib + 1].hostname
    /\ ib' = ib + 1
    /\ host_a_osds' = AllOsds(hosts[ia])
    /\ host_b_osds' = AllOsds(hosts[ib + 1])
    /\ ja' = 0
    /\ pc' = "for_osd_a"
    /\ UNCHANGED <<metadata, log, osds, hosts, i, output, best_swap,
                   highest_spread_improvement, original_spread_by_type, ia,
                   jb, at_call, at_swap>>

\* lines 99-101: the next host_b is host_a itself
SameHost ==
    /\ pc = "for_host_b"
    /\ ib < Len(hosts)
    /\ hosts[ia].hostname = hosts[ib + 1].hostname
    /\ ib' = ib + 1
    /\ UNCHANGED <<metadata, log, pc, osds, hosts, i, output, best_swap,
                   highest_spread_improvement, original_spread_by_type, ia,
                   host_a_osds, host_b_osds, ja, jb, at_call, at_swap>>

\* lines 99-105: the next host_b, another host; both OSD lists are copied
ForHostB ==
    /\ pc = "for_host_b"
    /\ ib < Len(hosts)
    /\ hosts[ia].hostname /= hosts[ib + 1].hostname
    /\ ib' = ib + 1
    /\ host_a_osds' = AllOsds(hosts[ia])
    /\ host_b_osds' = AllOsds(hosts[ib + 1])
    /\ ja' = 0
    /\ pc' = "for_osd_a"
    /\ UNCHANGED <<metadata, log, osds, hosts, i, output, best_swap,
                   highest_spread_improvement, original_spread_by_type, ia,
                   jb, at_call, at_swap>>

\* line 99: the loop over host_b is exhausted
EndHostB ==
    /\ pc = "for_host_b"
    /\ ib = Len(hosts)
    /\ pc' = "for_host_a"
    /\ UNCHANGED <<metadata, log, osds, hosts, i, output, search_vars, at_call, at_swap>>

\* the inner loop started at the second OSD of host_b
ForOsdASkipsFirst ==
    /\ pc = "for_osd_a"
    /\ ja < Len(host_a_osds)
    /\ ja' = ja + 1
    /\ jb' = 1
    /\ pc' = "for_osd_b"
    /\ UNCHANGED <<metadata, log, osds, hosts, i, output, best_swap,
                   highest_spread_improvement, original_spread_by_type,
                   ia, ib, host_a_osds, host_b_osds, at_call, at_swap>>

\* line 107: the next osd_a
ForOsdA ==
    /\ pc = "for_osd_a"
    /\ ja < Len(host_a_osds)
    /\ ja' = ja + 1
    /\ jb' = 0
    /\ pc' = "for_osd_b"
    /\ UNCHANGED <<metadata, log, osds, hosts, i, output, best_swap,
                   highest_spread_improvement, original_spread_by_type,
                   ia, ib, host_a_osds, host_b_osds, at_call, at_swap>>

\* line 107: the loop over host_a_osds is exhausted
EndOsdA ==
    /\ pc = "for_osd_a"
    /\ ja = Len(host_a_osds)
    /\ pc' = "for_host_b"
    /\ UNCHANGED <<metadata, log, osds, hosts, i, output, search_vars, at_call, at_swap>>

\* line 111: same size and same type
Trivial(os, a, b) ==
    /\ os[a].bluestore_bdev_size = os[b].bluestore_bdev_size
    /\ os[a].bluestore_bdev_type = os[b].bluestore_bdev_type

\* lines 108-112: the next osd_b makes a trivially non-beneficial swap
SkipTrivial ==
    /\ pc = "for_osd_b"
    /\ jb < Len(host_b_osds)
    /\ Trivial(osds, host_a_osds[ja], host_b_osds[jb + 1])
    /\ jb' = jb + 1
    /\ UNCHANGED <<metadata, log, pc, osds, hosts, i, output, best_swap,
                   highest_spread_improvement, original_spread_by_type,
                   ia, ib, host_a_osds, host_b_osds, ja, at_call, at_swap>>

RECURSIVE SumFun(_, _)
SumFun(f, S) ==
    IF S = {} THEN 0
    ELSE LET t == CHOOSE x \in S : TRUE IN f[t] + SumFun(f, S \ {t})

\* line 121 with the subtraction the wrong way round
improvements_reversed(original, new) ==
    [t \in DOMAIN original |-> new[t] - original[t]]

\* line 121
improvements_per_type(original, new) ==
    [t \in DOMAIN original |-> original[t] - new[t]]

\* line 122
total_spread_improvement(imps) == SumFun(imps, DOMAIN imps)

\* line 123
all_spreads_not_increased(imps) == \A t \in DOMAIN imps : imps[t] >= 0

\* line 125 without the test of the single types
AcceptIgnoringTypes(total, highest, not_increased) ==
    total > 0 /\ total > highest

\* line 125 accepting a swap that changes nothing
AcceptNonNegative(total, highest, not_increased) ==
    total >= 0 /\ total > highest /\ not_increased

\* line 125 letting a later candidate replace an equally good one
AcceptTies(total, highest, not_increased) ==
    total > 0 /\ total >= highest /\ not_increased

\* line 125 with only the comparison to the best swap so far
AcceptBestSoFar(total, highest, not_increased) ==
    total > highest

\* line 125
Accept(total, highest, not_increased) ==
    total > 0 /\ total > highest /\ not_increased

\* lines 108-127: the next osd_b, the hypothetical swap and its score
HypotheticalSwap ==
    /\ pc = "for_osd_b"
    /\ jb < Len(host_b_osds)
    /\ LET osd_a == host_a_osds[ja]
           osd_b == host_b_osds[jb + 1]
           r     == swap_osd(hosts, osds, osd_a, osd_b)
           imps  == improvements_per_type(original_spread_by_type,
                        calculate_spread_by_type(r.hosts, r.osds))
           total == total_spread_improvement(imps)
       IN  /\ ~Trivial(osds, osd_a, osd_b)
           /\ ~r.raised
           /\ hosts' = r.hosts
           /\ osds' = r.osds
           /\ IF Accept(total, highest_spread_improvement,
                        all_spreads_not_increased(imps))
              THEN /\ best_swap' = <<osd_a, osd_b>>
                   /\ highest_spread_improvement' = total
              ELSE UNCHANGED <<best_swap, highest_spread_improvement>>
    /\ jb' = jb + 1
    /\ at_swap' = [hosts |-> hosts, osds |-> osds]
    /\ pc' = "undo"
    /\ UNCHANGED <<metadata, log, i, output, original_spread_by_type, ia, ib,
                   host_a_osds, host_b_osds, ja, at_call>>

\* line 115: swap_osd raises KeyError at line 88 or 89, nothing catches it
HypotheticalSwapRaises ==
    /\ pc = "for_osd_b"
    /\ jb < Len(host_b_osds)
    /\ LET osd_a == host_a_osds[ja]
           osd_b == host_b_osds[jb + 1]
           r     == swap_osd(hosts, osds, osd_a, osd_b)
       IN  /\ ~Trivial(osds, osd_a, osd_b)
           /\ r.raised
           /\ hosts' = r.hosts
           /\ osds' = r.osds
    /\ jb' = jb + 1
    /\ at_swap' = [hosts |-> hosts, osds |-> osds]
    /\ pc' = "error"
    /\ UNCHANGED <<metadata, log, i, output, best_swap, highest_spread_improvement,
                   original_spread_by_type, ia, ib, host_a_osds, host_b_osds,
                   ja, at_call>>

\* line 130 left out
UndoSwapForgotten ==
    /\ pc = "undo"
    /\ pc' = "for_osd_b"
    /\ UNCHANGED <<metadata, log, osds, hosts, i, output, search_vars, at_call, at_swap>>

\* line 130: the hypothetical swap is undone
UndoSwap ==
    /\ pc = "undo"
    /\ LET r == swap_osd(hosts, osds, host_a_osds[ja], host_b_osds[jb])
       IN  /\ hosts' = r.hosts
           /\ osds' = r.osds
           /\ pc' = IF r.raised THEN "error" ELSE "for_osd_b"
    /\ UNCHANGED <<metadata, log, i, output, search_vars, at_call, at_swap>>

\* line 108: the loop over host_b_osds is exhausted
EndOsdB ==
    /\ pc = "for_osd_b"
    /\ jb = Len(host_b_osds)
    /\ pc' = "for_osd_a"
    /\ UNCHANGED <<metadata, log, osds, hosts, i, output, search_vars, at_call, at_swap>>

\* --------------------------------------------------------------- optimize
\* lines 155-156: no swap was found
Break ==
    /\ pc = "returned"
    /\ best_swap = None
    /\ pc' = "done"
    /\ UNCHANGED <<metadata, log, osds, hosts, i, output, search_vars, at_call, at_swap>>

\* lines 158-163: the swap is printed
PrintSwap ==
    /\ pc = "returned"
    /\ best_swap /= None
    /\ output' = Append(output, [step |-> i,
                                 osd_a |-> osds[best_swap[1]],
                                 osd_b |-> osds[best_swap[2]]])
    /\ pc' = "apply"
    /\ UNCHANGED <<metadata, log, osds, hosts, i, search_vars, at_call, at_swap>>

\* the call of line 165 left out
ApplySwapForgotten ==
    /\ pc = "apply"
    /\ pc' = "increment"
    /\ UNCHANGED <<metadata, log, osds, hosts, i, output, search_vars,
                   at_call, at_swap>>

\* line 165: the swap is applied
ApplySwap ==
    /\ pc = "apply"
    /\ LET r == swap_osd(hosts, osds, best_swap[1], best_swap[2])
       IN  /\ hosts' = r.hosts
           /\ osds' = r.osds
           /\ pc' = IF r.raised THEN "error" ELSE "increment"
    /\ UNCHANGED <<metadata, log, i, output, search_vars, at_call, at_swap>>

\* the step counter left as it is
IncrementStepForgotten ==
    /\ pc = "increment"
    /\ pc' = "while"
    /\ UNCHANGED <<metadata, log, osds, hosts, i, output, search_vars,
                   at_call, at_swap>>

\* line 166
IncrementStep ==
    /\ pc = "increment"
    /\ i' = i + 1
    /\ pc' = "while"
    /\ UNCHANGED <<metadata, log, osds, hosts, output, search_vars, at_call, at_swap>>

Next ==
    \/ FetchOk
    \/ FetchExitNonZero
    \/ FetchNotStartable
    \/ Main
    \/ CallFindBestSwap
    \/ ForHostA
    \/ ReturnBestSwap
    \/ SameHost
    \/ ForHostB
    \/ EndHostB
    \/ ForOsdA
    \/ EndOsdA
    \/ SkipTrivial
    \/ HypotheticalSwap
    \/ HypotheticalSwapRaises
    \/ UndoSwap
    \/ EndOsdB
    \/ Break
    \/ PrintSwap
    \/ ApplySwap
    \/ IncrementStep

Spec == Init /\ [][Next]_vars

\* ================================================================ claims
\* the OSDs found in the buckets of the hosts, host by host
Placed(hs) == Concat([k \in DOMAIN hs |-> AllOsds(hs[k])])

\* how many times OSD x occurs in list l
Count(l, x) == Cardinality({k \in DOMAIN l : l[k] = x})

Capacity(os, ids) == SumSeq([k \in DOMAIN ids |-> os[ids[k]].bluestore_bdev_size])

\* the OSDs held by the host named h
HostSet(hs, h) ==
    IF HasHost(hs, h) THEN Range(AllOsds(hs[HostIndex(hs, h)])) ELSE {}

Conserved ==
    /\ \A x \in DOMAIN osds : Count(Placed(hosts), x) = 1
    /\ Len(Placed(hosts)) = Len(osds)
    /\ Capacity(osds, Placed(hosts)) = Capacity(osds, [k \in DOMAIN osds |-> k])

Applied == pc = "apply" /\ pc' = "increment"

ExchangesOnlyTheTwo ==
    LET a  == best_swap[1]
        b  == best_swap[2]
        ha == osds[a].hostname
        hb == osds[b].hostname
    IN  \A k \in DOMAIN hosts :
          LET h == hosts[k].hostname
          IN  HostSet(hosts', h) =
                IF h = ha THEN (HostSet(hosts, h) \ {a}) \cup {b}
                ELSE IF h = hb THEN (HostSet(hosts, h) \ {b}) \cup {a}
                ELSE HostSet(hosts, h)

\* C1: once the hosts are built, at every point of the run every OSD is in
\* exactly one bucket, none is duplicated or lost, the number of OSDs and the
\* total capacity are unchanged, and an applied swap changes the OSD sets of
\* the hosts only by exchanging the two swapped OSDs.
C1_DeviceConservation ==
    /\ [](pc \notin {"fetch", "aborted", "main"} => Conserved)
    /\ [][Applied => ExchangesOnlyTheTwo]_vars

\* ---------------------------------------------------------------------
TotalSpread(hs, os) ==
    LET spread == calculate_spread_by_type(hs, os)
    IN  SumFun(spread, DOMAIN spread)

\* C2: every applied swap makes the sum of the spreads of all types strictly
\* smaller, and the sum seen by each call of find_best_swap is strictly
\* smaller than the sum seen by the call before it.
C2_MonotonicImprovement ==
    [][/\ Applied => TotalSpread(hosts', osds') < TotalSpread(hosts, osds)
       /\ (pc = "while" /\ pc' = "for_host_a" /\ at_call /= <<>>)
            => TotalSpread(hosts, osds)
                 < TotalSpread(at_call.hosts, at_call.osds)]_vars

C2_Witness == pc = "increment" /\ Len(output) = 2

\* C3: an applied swap increases the spread of no type.
C3_NoTierWorsens ==
    [][Applied =>
         LET old == calculate_spread_by_type(hosts, osds)
             new == calculate_spread_by_type(hosts', osds')
         IN  \A t \in DOMAIN old : new[t] <= old[t]]_vars

C3_Witness == pc = "increment" /\ Cardinality(SpreadKeys(hosts)) = 2

\* the positions at which no step of the program is possible
Halted == pc \in {"done", "error"}

\* C4: every run of optimize goes on until it reaches the done state: the
\* program halts nowhere else.
C4_Termination == Halted => pc = "done"

\* C5: find_best_swap and optimize never raise; no swap_osd fails.
C5_NoErrorStates == pc /= "error"

\* C6: undoing a hypothetical swap restores hosts and osds in every field,
\* the order of the OSDs in every bucket included.
C6_Reversibility ==
    [][(pc = "undo" /\ pc' = "for_osd_b")
         => (hosts' = at_swap.hosts /\ osds' = at_swap.osds)]_vars

\* the type keys of every host and the set of OSDs of every bucket agree
SameBuckets(hs1, hs2) ==
    /\ Len(hs1) = Len(hs2)
    /\ \A k \in DOMAIN hs1 :
         /\ hs1[k].hostname = hs2[k].hostname
         /\ Len(hs1[k].osd_by_type) = Len(hs2[k].osd_by_type)
         /\ \A m \in DOMAIN hs1[k].osd_by_type :
              /\ hs1[k].osd_by_type[m].type = hs2[k].osd_by_type[m].type
              /\ Range(hs1[k].osd_by_type[m].osds)
                   = Range(hs2[k].osd_by_type[m].osds)
              /\ Len(hs1[k].osd_by_type[m].osds)
                   = Len(hs2[k].osd_by_type[m].osds)

\* C7: when find_best_swap returns, every OSD has the hostname it had at the
\* call and every bucket holds the OSDs it held at the call.
C7_SearchLeavesNoEffect ==
    pc = "returned" => (osds = at_call.osds /\ SameBuckets(hosts, at_call.hosts))

C7_Witness ==
    pc = "returned" /\ best_swap /= None /\ hosts /= at_call.hosts

\* ---------------------------------------------------------------------
ImprovementsOf(hs, os, p) ==
    LET r == swap_osd(hs, os, p[1], p[2])
    IN  improvements_per_type(calculate_spread_by_type(hs, os),
                              calculate_spread_by_type(r.hosts, r.osds))

TotalOf(p) ==
    total_spread_improvement(ImprovementsOf(at_call.hosts, at_call.osds, p))

\* pairs of OSDs on distinct hosts that differ in size or type
CandidatePairs ==
    {p \in (DOMAIN osds) \X (DOMAIN osds) :
        /\ at_call.osds[p[1]].hostname /= at_call.osds[p[2]].hostname
        /\ ~Trivial(osds, p[1], p[2])}

AcceptablePairs ==
    {p \in CandidatePairs :
        /\ TotalOf(p) > 0
        /\ all_spreads_not_increased(
               ImprovementsOf(at_call.hosts, at_call.osds, p))}

\* place of a pair in the enumeration: host_a, host_b, osd_a, osd_b
Rank(p) ==
    LET ha == HostIndex(at_call.hosts, at_call.osds[p[1]].hostname)
        hb == HostIndex(at_call.hosts, at_call.osds[p[2]].hostname)
    IN  <<ha, hb, IndexOf(AllOsds(at_call.hosts[ha]), p[1]),
                  IndexOf(AllOsds(at_call.hosts[hb]), p[2])>>

LexLess(u, v) ==
    \E k \in 1..4 : u[k] < v[k] /\ \A m \in 1..(k-1) : u[m] = v[m]

\* C8: find_best_swap returns none exactly when no pair is acceptable;
\* otherwise it returns an acceptable pair of maximal total improvement, the
\* first such pair in the order of the hosts and of the OSDs within each host.
C8_BestSwapSelection ==
    pc = "returned" =>
        /\ (best_swap = None) <=> (AcceptablePairs = {})
        /\ best_swap /= None =>
             /\ best_swap \in AcceptablePairs
             /\ \A q \in AcceptablePairs :
                  /\ TotalOf(q) <= TotalOf(best_swap)
                  /\ (TotalOf(q) = TotalOf(best_swap) /\ q /= best_swap)
                       => LexLess(Rank(best_swap), Rank(q))

\* the part of C8 that does not depend on the order of equally good pairs
BestSwapIsMaximal ==
    pc = "returned" =>
        /\ (best_swap = None) <=> (AcceptablePairs = {})
        /\ best_swap /= None =>
             /\ best_swap \in AcceptablePairs
             /\ \A q \in AcceptablePairs : TotalOf(q) <= TotalOf(best_swap)

\* C9: after the grouping and after every completed swap_osd, an OSD is in
\* the bucket of its own type of the host named by its hostname, once, and in
\* no other bucket of any host.
C9_HostBucketInvariant ==
    pc \notin {"fetch", "aborted", "main", "error"} =>
        /\ \A x \in DOMAIN osds : HasHost(hosts, osds[x].hostname)
        /\ \A j, k \in DOMAIN hosts :
             hosts[j].hostname = hosts[k].hostname => j = k
        /\ \A x \in DOMAIN osds : \A k \in DOMAIN hosts :
             \A m \in DOMAIN hosts[k].osd_by_type :
                Count(hosts[k].osd_by_type[m].osds, x) =
                    IF /\ hosts[k].hostname = osds[x].hostname
                       /\ hosts[k].osd_by_type[m].type
                            = osds[x].bluestore_bdev_type
                    THEN 1 ELSE 0

C9_Witness ==
    /\ pc = "undo"
    /\ osds[host_a_osds[ja]].bluestore_bdev_type
         /= osds[host_b_osds[jb]].bluestore_bdev_type

\* the unordered pair of ids of the k-th printed swap
SwapPair(k) == {output[k].osd_a.id, output[k].osd_b.id}

\* C10 as claimed: no pair of OSDs is recommended twice in a run.
C10_NoPairTwice ==
    \A j, k \in DOMAIN output : j < k => SwapPair(j) /= SwapPair(k)

\* C10 as amended: no pair of OSDs is recommended twice in succession.
C10_NoImmediateRepeat ==
    \A k \in DOMAIN output :
        k + 1 \in DOMAIN output => SwapPair(k) /= SwapPair(k + 1)

C10_Witness ==
    /\ pc = "done"
    /\ \E j, k \in DOMAIN output : j + 1 < k /\ SwapPair(j) = SwapPair(k)

\* what holds of C1 when no swap_osd raises
ConservedUnlessRaised ==
    pc \notin {"fetch", "aborted", "main", "error"} => Conserved

\* ---------------------------------------------------------------- C11
\* the hostname of every OSD after the first k reported swaps
Placement[k \in Nat] ==
    IF k = 0
    THEN [x \in DOMAIN osds |-> metadata[x][1]]
    ELSE LET p == Placement[k - 1]
             a == output[k].osd_a.id
             b == output[k].osd_b.id
         IN  [p EXCEPT ![a] = p[b], ![b] = p[a]]

\* C11 as stated: when optimize leaves its loop, the number of accepted
\* swaps (the step counter minus one) is at most the number of OSDs.
C11_StepBound == pc = "done" => i - 1 <= Len(osds)

\* C11 as amended: the number of accepted swaps is the step counter minus
\* one, the OSDs stand where the reported swaps put them, and no placement
\* of the OSDs on the hosts comes back during a run.
C11_NoPlacementTwice ==
    /\ pc \in {"done", "error"} => Len(output) = i - 1
    /\ pc \in {"while", "done"} =>
           [x \in DOMAIN osds |-> osds[x].hostname] = Placement[Len(output)]
    /\ \A j, k \in 0..Len(output) : j < k => Placement[j] /= Placement[k]

C11_Witness == pc = "done" /\ Len(output) > Len(osds)

\* ---------------------------------------------------------------- C12
\* C12: when optimize has left its loop, no two OSDs on distinct hosts can
\* be swapped with a total improvement above zero and no type made worse.
C12_FinalStateIsFixpoint ==
    pc = "done" =>
        \A a, b \in DOMAIN osds :
            osds[a].hostname /= osds[b].hostname =>
                LET imps == ImprovementsOf(hosts, osds, <<a, b>>)
                IN  ~(/\ total_spread_improvement(imps) > 0
                      /\ all_spreads_not_increased(imps))

C12_Witness == pc = "done" /\ Len(output) >= 1 /\ Len(hosts) >= 2

\* ---------------------------------------------------------------- C13
\* the hosts that hold at least one OSD of type t
HoldersOf(t) ==
    {k \in DOMAIN hosts :
        /\ HasKey(hosts[k].osd_by_type, t)
        /\ DictGet(hosts[k].osd_by_type, t) /= <<>>}

\* C13: in every Topology on which calculate_spread_by_type is evaluated
\* (at the head of find_best_swap and after a hypothetical swap), the sample
\* of a type has exactly one entry per host holding an OSD of that type.
C13_AbsentTiersNoEntry ==
    pc \in {"for_host_a", "undo"} =>
        \A t \in Types :
            Len(TotalSizes(hosts, osds, t, 1)) = Cardinality(HoldersOf(t))

\* ---------------------------------------------------------------- C14
\* the run on Scenario A, once the inventory has been read
ScenarioA == metadata = ScenarioAInventory /\ osds /= <<>>

\* C14 as stated: on Scenario A (X: one hdd of 10 GB, Y: hdds of 2 GB and
\* 6 GB) the first find_best_swap returns the pair of the 10 GB and the 6 GB
\* OSD, and that swap strictly lowers the spread.
C14_ScenarioAProposesSwap ==
    (ScenarioA /\ pc = "returned" /\ i = 1) =>
        /\ best_swap \in {<<1, 3>>, <<3, 1>>}
        /\ LET r == swap_osd(hosts, osds, 1, 3)
           IN  TotalSpread(r.hosts, r.osds) < TotalSpread(hosts, osds)

\* C14 as amended: on Scenario A every hypothetical swap raises the spread,
\* find_best_swap returns none and no swap is recommended.
C14_ScenarioAReturnsNone ==
    ScenarioA =>
        /\ pc = "undo" =>
              TotalSpread(hosts, osds)
                  > TotalSpread(at_swap.hosts, at_swap.osds)
        /\ pc \in {"returned", "done"} => best_swap = None
        /\ output = <<>>
        /\ pc \notin {"apply", "increment", "error"}

C14_Witness == ScenarioA /\ pc = "done" /\ at_swap /= <<>>

\* ---------------------------------------------------------------- C15
\* the OSDs and the Topology as they were read and grouped
InitialOsds ==
    [x \in DOMAIN osds |-> [id |-> x,
                            bluestore_bdev_size |-> metadata[x][3],
                            hostname |-> metadata[x][1],
                            bluestore_bdev_type |-> metadata[x][2]]]

InitialHosts == group_osds_by_host_and_type(InitialOsds)

\* the capacity that host k holds of type t, in the unit of the sizes
RawTotal(hs, os, k, t) ==
    IF HasKey(hs[k].osd_by_type, t)
    THEN LET ids == DictGet(hs[k].osd_by_type, t)
         IN  SumSeq([m \in DOMAIN ids |-> os[ids[m]].bluestore_bdev_size])
    ELSE 0

\* exactly two hosts, holding the same capacity of every type
EqualTotals ==
    /\ Len(InitialHosts) = 2
    /\ \A t \in Types : RawTotal(InitialHosts, InitialOsds, 1, t)
                           = RawTotal(InitialHosts, InitialOsds, 2, t)

C16_FewerThanTwoHosts ==
    (pc \notin {"fetch", "aborted", "main"} /\ Len(hosts) < 2) =>
        /\ pc \notin {"for_osd_a", "for_osd_b", "undo", "error", "apply",
                      "increment"}
        /\ at_swap = <<>>
        /\ pc = "returned" => best_swap = None
        /\ output = <<>>
        /\ hosts = InitialHosts
        /\ osds = InitialOsds

C16_Witness ==
    pc = "done" /\ Len(hosts) = 1 /\ Len(osds) >= 2 /\ at_call /= <<>>

\* the empty inventory reaches the end of optimize as well
C16_WitnessEmpty == pc = "done" /\ hosts = <<>> /\ at_call /= <<>>

\* ---------------------------------------------------------------- C17
\* C17: however the fetch of get_ceph_osd_metadata fails, the failure is
\* printed, the device list is empty, and the program goes on through the
\* grouping and optimize instead of ending at the failure.
C17_FetchFailureRecovered ==
    /\ pc /= "aborted"
    /\ log /= <<>> =>
          /\ osds = <<>>
          /\ hosts = <<>>
          /\ output = <<>>
          /\ pc \in {"main", "while", "for_host_a", "returned", "done"}

\* the part of C17 that holds: a non-zero exit is printed and answered by
\* an empty list, with which the program runs to its end
NonZeroExitRecovered ==
    log /= <<>> =>
        /\ osds = <<>>
        /\ hosts = <<>>
        /\ output = <<>>
        /\ pc \in {"main", "while", "for_host_a", "returned", "done"}

\* ---------------------------------------------------------------- C18
Hostnames == [x \in DOMAIN osds |-> osds[x].hostname]

Reported == Len(output') > Len(output)

\* C18 as stated: when a swap is reported it has already been applied to
\* the Topology, the step counter is incremented after the report, and the
\* reports carry the step numbers 1, 2, 3, ...
C18_ApplyThenReport ==
    /\ [](\A k \in DOMAIN output : output[k].step = k)
    /\ [][Reported =>
            /\ osds[best_swap[1]].hostname
                   = at_call.osds[best_swap[2]].hostname
            /\ osds[best_swap[2]].hostname
                   = at_call.osds[best_swap[1]].hostname
            /\ i = Len(output')
            /\ i' = i]_vars

\* C18 as amended: a swap is first reported, with the hosts its OSDs are on
\* before the swap, then applied, then counted; every accepted swap is
\* reported once and applied once, with the step numbers 1, 2, 3, ...
C18_ReportThenApply ==
    /\ [](\A k \in DOMAIN output : output[k].step = k)
    /\ [](pc \in {"while", "returned"} =>
            Len(output) = i - 1 /\ Hostnames = Placement[i - 1])
    /\ [](pc = "apply" => Len(output) = i /\ Hostnames = Placement[i - 1])
    /\ [](pc = "increment" => Len(output) = i /\ Hostnames = Placement[i])
    /\ [][Reported =>
            /\ pc = "returned" /\ pc' = "apply"
            /\ Len(output') = Len(output) + 1
            /\ hosts' = hosts /\ osds' = osds /\ i' = i
            /\ output'[i].osd_a = osds[best_swap[1]]
            /\ output'[i].osd_b = osds[best_swap[2]]]_vars

C18_Witness == pc = "while" /\ i = 3 /\ Len(output) = 2

\* ---------------------------------------------------------------- C19
\* C19: whatever swap_osd calls have been made, calculate_spread_by_type
\* returns the types it returned on the initial Topology, with samples of
\* the same size, and every type of original_spread_by_type is among them.
C19_MetricKeySetStable ==
    pc \notin {"fetch", "aborted", "main"} =>
        LET initial == InitialHosts
        IN  /\ SpreadKeys(hosts) = SpreadKeys(initial)
            /\ \A t \in SpreadKeys(hosts) :
                   Len(TotalSizes(hosts, osds, t, 1))
                       = Len(TotalSizes(initial, InitialOsds, t, 1))
            /\ pc /= "while" =>
                   DOMAIN original_spread_by_type = SpreadKeys(hosts)

\* a hypothetical swap between types has emptied a bucket
C19_Witness ==
    /\ pc = "undo"
    /\ \E k \in DOMAIN hosts : \E m \in DOMAIN hosts[k].osd_by_type :
           hosts[k].osd_by_type[m].osds = <<>>
    /\ Cardinality(SpreadKeys(hosts)) = 2

====
